---- MODULE Spec2Model ----
(***************************************************************************)
(* Model of the dice-notation interpreter of the VTT API (dice_utils.py)   *)
(* and of the roll endpoint that stores its results (main.py).             *)
(*                                                                         *)
(* Texts are sequences of one-character strings, so that the regular       *)
(* expression, int() and the f-strings are computed character by           *)
(* character as the code computes them.                                    *)
(***************************************************************************)
EXTENDS Integers, Sequences, FiniteSets, TLC

VARIABLES
    expression,  \* the text the caller supplies
    parsed,      \* outcome of the last parse_dice_expression(expression)
    valid,       \* outcome of the last validate_dice_expression(expression)
    rolled,      \* outcome of the last roll_dice(expression)
    rnd,         \* the values random.randint returned during the last roll_dice
    tables,      \* ids of the rows of "tables"
    chat,        \* rows of "chat_messages", in insertion order
    response     \* the answer to the last request

vars == <<expression, parsed, valid, rolled, rnd, tables, chat, response>>

-----------------------------------------------------------------------------
(* Bounds of the model *)

\* small dice counts 1..MaxDice of the enumerated terms
MaxDice == 2
\* small side numbers 1..MaxFaces of the enumerated terms
MaxFaces == 3
\* modifiers -MaxMod..MaxMod of the enumerated terms
MaxMod == 2
\* every text of at most MaxLen characters over Alphabet is an input
MaxLen == 3
\* tables ever created
MaxTables == 2
\* chat messages stored
MaxMessages == 2

(* Program constants *)

\* count > 100 is rejected
MaxCount == 100
\* sides > 1000 is rejected
MaxSides == 1000

-----------------------------------------------------------------------------
(* Characters, int() and str() *)

Digits == {"0", "1", "2", "3", "4", "5", "6", "7", "8", "9"}

DigitVal(c) ==
    CASE c = "0" -> 0 [] c = "1" -> 1 [] c = "2" -> 2 [] c = "3" -> 3
      [] c = "4" -> 4 [] c = "5" -> 5 [] c = "6" -> 6 [] c = "7" -> 7
      [] c = "8" -> 8 [] c = "9" -> 9

DigitChar(n) ==
    CASE n = 0 -> "0" [] n = 1 -> "1" [] n = 2 -> "2" [] n = 3 -> "3"
      [] n = 4 -> "4" [] n = 5 -> "5" [] n = 6 -> "6" [] n = 7 -> "7"
      [] n = 8 -> "8" [] n = 9 -> "9"

RECURSIVE NatOfDigits(_)
\* int() of a run of decimal digits (leading zeros allowed)
NatOfDigits(s) ==
    IF s = <<>> THEN 0
    ELSE 10 * NatOfDigits(SubSeq(s, 1, Len(s) - 1)) + DigitVal(s[Len(s)])

\* int() that drops the sign of the text
int_IgnoresSign(s) ==
    IF s[1] \in {"-", "+"} THEN NatOfDigits(Tail(s)) ELSE NatOfDigits(s)

\* int() of the texts the pattern's groups capture: digits, or a sign and digits
int(s) ==
    IF s[1] = "-" THEN 0 - NatOfDigits(Tail(s))
    ELSE IF s[1] = "+" THEN NatOfDigits(Tail(s))
    ELSE NatOfDigits(s)

RECURSIVE NatStr(_)
NatStr(n) ==
    IF n < 10 THEN <<DigitChar(n)>>
    ELSE NatStr(n \div 10) \o <<DigitChar(n % 10)>>

\* str(n) and f"{n}"
str(n) == IF n < 0 THEN <<"-">> \o NatStr(0 - n) ELSE NatStr(n)

\* "+" followed by str(n), which writes -3 as "+-3"
SignedStr_PlusThenNumber(n) == <<"+">> \o str(n)

\* f"{n:+d}"
SignedStr(n) == IF n < 0 THEN <<"-">> \o NatStr(0 - n) ELSE <<"+">> \o NatStr(n)

-----------------------------------------------------------------------------
(* parse_dice_expression *)

\* str.lower() of a character: 'D' is the only upper-case letter of the inputs
Lower(c) == IF c = "D" THEN "d" ELSE c

\* expression.replace(" ", "").lower()
Clean(e) ==
    LET kept == SelectSeq(e, LAMBDA c : c # " ")
    IN [i \in 1..Len(kept) |-> Lower(kept[i])]

RECURSIVE DigitRun(_, _)
\* length of the longest run of digits of t that starts at position i
DigitRun(t, i) ==
    IF i <= Len(t) /\ t[i] \in Digits THEN 1 + DigitRun(t, i + 1) ELSE 0

\* the match of (\d+)d(\d+)([+-]\d+)?: a pattern that requires the count
MatchAt_CountRequired(t, i) ==
    LET k == DigitRun(t, i)
        dpos == i + k
        sl == DigitRun(t, dpos + 1)
        mpos == dpos + 1 + sl
        ml == IF mpos <= Len(t) /\ t[mpos] \in {"+", "-"}
              THEN DigitRun(t, mpos + 1) ELSE 0
    IN IF k >= 1 /\ dpos <= Len(t) /\ t[dpos] = "d" /\ sl >= 1
       THEN [found |-> TRUE,
             start |-> i,
             count_str |-> SubSeq(t, i, dpos - 1),
             sides_str |-> SubSeq(t, dpos + 1, mpos - 1),
             modifier_str |-> IF ml >= 1 THEN SubSeq(t, mpos, mpos + ml) ELSE <<>>,
             end |-> IF ml >= 1 THEN mpos + 1 + ml ELSE mpos]
       ELSE [found |-> FALSE, start |-> i, count_str |-> <<>>, sides_str |-> <<>>,
             modifier_str |-> <<>>, end |-> i]

\* the match of (\d*)d(\d+)([+-]\d+)? that starts at position i, if there is one
MatchAt(t, i) ==
    LET k == DigitRun(t, i)
        dpos == i + k
        sl == DigitRun(t, dpos + 1)
        mpos == dpos + 1 + sl
        ml == IF mpos <= Len(t) /\ t[mpos] \in {"+", "-"}
              THEN DigitRun(t, mpos + 1) ELSE 0
    IN IF dpos <= Len(t) /\ t[dpos] = "d" /\ sl >= 1
       THEN [found |-> TRUE,
             start |-> i,
             count_str |-> SubSeq(t, i, dpos - 1),
             sides_str |-> SubSeq(t, dpos + 1, mpos - 1),
             modifier_str |-> IF ml >= 1 THEN SubSeq(t, mpos, mpos + ml) ELSE <<>>,
             end |-> IF ml >= 1 THEN mpos + 1 + ml ELSE mpos]
       ELSE [found |-> FALSE, start |-> i, count_str |-> <<>>, sides_str |-> <<>>,
             modifier_str |-> <<>>, end |-> i]

RECURSIVE FindAllFrom(_, _)
\* re.findall: the non-overlapping matches, scanning left to right from position i
FindAllFrom(t, i) ==
    IF i > Len(t) THEN <<>>
    ELSE LET m == MatchAt(t, i)
         IN IF m.found THEN <<m>> \o FindAllFrom(t, m.end)
            ELSE FindAllFrom(t, i + 1)

findall(t) == FindAllFrom(t, 1)

\* raise ValueError(f"{text}{arg}")
ValueError(text, arg) == [type |-> "ValueError", text |-> text, arg |-> arg]

NoError == [type |-> "", text |-> "", arg |-> <<>>]

\* the bounds checks of one match: the error it raises, or NoError
CheckTerm(count, sides) ==
    IF count <= 0 \/ count > MaxCount THEN ValueError("Invalid dice count: ", str(count))
    ELSE IF sides <= 0 \/ sides > MaxSides THEN ValueError("Invalid dice sides: ", str(sides))
    ELSE NoError

\* the (count, sides, modifier) of one match
TermOf(m) ==
    [count |-> IF m.count_str # <<>> THEN int(m.count_str) ELSE 1,
     sides |-> int(m.sides_str),
     modifier |-> IF m.modifier_str # <<>> THEN int(m.modifier_str) ELSE 0]

RECURSIVE ParseLoop(_, _, _)
\* the loop over the matches: the first violation raises, else the term is appended
ParseLoop(matches, i, components) ==
    IF i > Len(matches) THEN [ok |-> TRUE, components |-> components, error |-> NoError]
    ELSE LET term == TermOf(matches[i])
             err == CheckTerm(term.count, term.sides)
         IN IF err # NoError THEN [ok |-> FALSE, components |-> <<>>, error |-> err]
            ELSE ParseLoop(matches, i + 1, Append(components, term))

parse_dice_expression(e) ==
    LET cleaned == Clean(e)
        matches == findall(cleaned)
    IN IF matches = <<>>
       THEN [ok |-> FALSE, components |-> <<>>,
             error |-> ValueError("Invalid dice expression: ", cleaned)]
       ELSE ParseLoop(matches, 1, <<>>)

\* a validation that only looks for a match and skips the bounds
validate_dice_expression_SkipsBounds(e) ==
    [raised |-> FALSE, value |-> findall(Clean(e)) # <<>>]

\* try: parse ... return True / except ValueError: return False;
\* an exception of another type would leave the function
validate_dice_expression(e) ==
    LET p == parse_dice_expression(e)
    IN IF p.ok THEN [raised |-> FALSE, value |-> TRUE]
       ELSE IF p.error.type = "ValueError" THEN [raised |-> FALSE, value |-> FALSE]
       ELSE [raised |-> TRUE, value |-> FALSE]

-----------------------------------------------------------------------------
(* roll_dice *)

RECURSIVE Sum(_)
\* sum(s), adding the two halves of s
Sum(s) ==
    IF Len(s) = 0 THEN 0
    ELSE IF Len(s) = 1 THEN s[1]
    ELSE LET h == Len(s) \div 2
         IN Sum(SubSeq(s, 1, h)) + Sum(SubSeq(s, h + 1, Len(s)))

RECURSIVE Join(_, _)
\* sep.join(parts), joining the two halves of parts
Join(sep, parts) ==
    IF Len(parts) = 0 THEN <<>>
    ELSE IF Len(parts) = 1 THEN parts[1]
    ELSE LET h == Len(parts) \div 2
         IN Join(sep, SubSeq(parts, 1, h)) \o sep \o Join(sep, SubSeq(parts, h + 1, Len(parts)))

\* f"[{rolls[0]}]" for one roll, f"[{'+'.join(map(str, rolls))}]" otherwise
RollDetail(rolls) ==
    IF Len(rolls) = 1 THEN <<"[">> \o str(rolls[1]) \o <<"]">>
    ELSE <<"[">> \o Join(<<"+">>, [i \in 1..Len(rolls) |-> str(rolls[i])]) \o <<"]">>

\* the breakdown part of one component, rolls being its random draws
BreakdownPart(term, rolls) ==
    LET dice_total == Sum(rolls) + term.modifier
        dice_str == str(term.count) \o <<"d">> \o str(term.sides)
    IN IF term.modifier # 0
       THEN dice_str \o <<":", " ">> \o RollDetail(rolls) \o SignedStr(term.modifier)
                \o <<" ", "=", " ">> \o str(dice_total)
       ELSE dice_str \o <<":", " ">> \o RollDetail(rolls) \o <<" ", "=", " ">> \o str(dice_total)

RECURSIVE RollLoop_TotalWithoutModifier(_, _, _, _, _)
\* the loop with total += sum(rolls), the modifier left out of the total
RollLoop_TotalWithoutModifier(components, randint, i, total, breakdown_parts) ==
    IF i > Len(components) THEN [total |-> total, breakdown_parts |-> breakdown_parts]
    ELSE RollLoop_TotalWithoutModifier(components, randint, i + 1,
                                       total + Sum(randint[i]),
                                       Append(breakdown_parts,
                                              BreakdownPart(components[i], randint[i])))

RECURSIVE RollLoop(_, _, _, _, _)
\* the loop over the components; randint[i] are the draws random.randint gives component i
RollLoop(components, randint, i, total, breakdown_parts) ==
    IF i > Len(components) THEN [total |-> total, breakdown_parts |-> breakdown_parts]
    ELSE LET term == components[i]
             rolls == randint[i]
             dice_total == Sum(rolls) + term.modifier
         IN RollLoop(components, randint, i + 1, total + dice_total,
                     Append(breakdown_parts, BreakdownPart(term, rolls)))

RECURSIVE Draws_FromZero(_)
\* draws of random.randint(0, sides): besides the draws within 1..sides, the
\* one where every die of a component shows 0
Draws_FromZero(components) ==
    IF components = <<>> THEN {<<>>}
    ELSE {<<rolls>> \o rest :
            rolls \in [1..Head(components).count -> 1..Head(components).sides]
                        \cup {[i \in 1..Head(components).count |-> 0]},
            rest \in Draws_FromZero(Tail(components))}

RECURSIVE Draws(_)
\* every outcome of the random draws of a component list:
\* count values of random.randint(1, sides) for each component
Draws(components) ==
    IF components = <<>> THEN {<<>>}
    ELSE {<<rolls>> \o rest :
            rolls \in [1..Head(components).count -> 1..Head(components).sides],
            rest \in Draws(Tail(components))}

NoRoll == [ok |-> FALSE, total |-> 0, breakdown |-> <<>>, expression |-> <<>>,
           error |-> NoError]

\* roll_dice returning the cleaned expression instead of the caller's
roll_dice_ReturnsCleaned(e, randint) ==
    LET p == parse_dice_expression(e)
    IN IF ~p.ok
       THEN [NoRoll EXCEPT !.error = ValueError("Error rolling dice: ", p.error)]
       ELSE LET r == RollLoop(p.components, randint, 1, 0, <<>>)
            IN [NoRoll EXCEPT !.ok = TRUE, !.total = r.total,
                              !.breakdown = Join(<<" ", "|", " ">>, r.breakdown_parts),
                              !.expression = Clean(e)]

roll_dice(e, randint) ==
    LET p == parse_dice_expression(e)
    IN IF ~p.ok
       THEN [NoRoll EXCEPT !.error = ValueError("Error rolling dice: ", p.error)]
       ELSE LET r == RollLoop(p.components, randint, 1, 0, <<>>)
            IN [NoRoll EXCEPT !.ok = TRUE, !.total = r.total,
                              !.breakdown = Join(<<" ", "|", " ">>, r.breakdown_parts),
                              !.expression = e]

-----------------------------------------------------------------------------
(* json.dumps and json.loads of the roll payload *)

\* the escape json.dumps writes for a character of a string
EscapeChar(c) ==
    CASE c = "\"" -> <<"\\", "\"">>
      [] c = "\\" -> <<"\\", "\\">>
      [] c = "\n" -> <<"\\", "n">>
      [] c = "\t" -> <<"\\", "t">>
      [] OTHER -> <<c>>

\* json.dumps of a string
JsonString(t) ==
    <<"\"">> \o Join(<<>>, [i \in 1..Len(t) |-> EscapeChar(t[i])]) \o <<"\"">>

\* json.dumps({"expression": ..., "result": ..., "breakdown": ...})
json_dumps(payload) ==
    <<"{", "\"", "e", "x", "p", "r", "e", "s", "s", "i", "o", "n", "\"", ":", " ">>
        \o JsonString(payload.expression)
        \o <<",", " ", "\"", "r", "e", "s", "u", "l", "t", "\"", ":", " ">>
        \o str(payload.result)
        \o <<",", " ", "\"", "b", "r", "e", "a", "k", "d", "o", "w", "n", "\"", ":", " ">>
        \o JsonString(payload.breakdown)
        \o <<"}">>

\* the character an escape sequence of a JSON string stands for
UnescapeChar(c) == CASE c = "n" -> "\n" [] c = "t" -> "\t" [] OTHER -> c

RECURSIVE ReadChars(_, _, _)
\* the characters of a JSON string from position i up to its closing quote
ReadChars(t, i, acc) ==
    IF i > Len(t) \/ t[i] = "\"" THEN [value |-> acc, end |-> i + 1]
    ELSE IF t[i] = "\\" THEN ReadChars(t, i + 2, Append(acc, UnescapeChar(t[i + 1])))
    ELSE ReadChars(t, i + 1, Append(acc, t[i]))

\* the JSON string whose opening quote is at position i, and the position after it
ReadString(t, i) == ReadChars(t, i + 1, <<>>)

\* the JSON integer that starts at position i, and the position after it
ReadNumber(t, i) ==
    LET n == IF t[i] = "-" THEN 1 + DigitRun(t, i + 1) ELSE DigitRun(t, i)
    IN [value |-> int(SubSeq(t, i, i + n - 1)), end |-> i + n]

\* json.loads of a stored roll payload: its three members, by key order
json_loads(t) ==
    LET k1 == ReadString(t, 2)
        v1 == ReadString(t, k1.end + 2)
        k2 == ReadString(t, v1.end + 2)
        v2 == ReadNumber(t, k2.end + 2)
        k3 == ReadString(t, v2.end + 2)
        v3 == ReadString(t, k3.end + 2)
    IN [keys |-> <<k1.value, k2.value, k3.value>>,
        expression |-> v1.value, result |-> v2.value, breakdown |-> v3.value]

-----------------------------------------------------------------------------
(* Inputs *)

RECURSIVE Decimal(_)
\* the decimal digits of a natural number
Decimal(n) ==
    IF n < 10 THEN <<DigitChar(n)>> ELSE Append(Decimal(n \div 10), DigitChar(n % 10))

\* the modifier as the caller writes it: a sign, then the digits
ModText(m) == IF m < 0 THEN <<"-">> \o Decimal(0 - m) ELSE <<"+">> \o Decimal(m)

\* the text "{count}d{sides}"
PlainText(c, s) == Decimal(c) \o <<"d">> \o Decimal(s)

\* the text "{count}d{sides}{modifier:+d}"
TermText(c, s, m) == PlainText(c, s) \o ModText(m)

\* the small modifiers, and two of several digits
Mods == ((0 - MaxMod)..MaxMod) \cup {-100, 10}

\* in-bounds (count, sides): the small ones and the ends of the ranges
TermSamples ==
    ((1..MaxDice) \X (1..MaxFaces)) \cup ((1..MaxCount) \X {1}) \cup ({1} \X {10, MaxSides})

\* (count, sides) with count or sides out of bounds
BadSamples ==
    ({0, MaxCount + 1} \X {1, 6}) \cup ({1, 2} \X {0, MaxSides + 1})
        \cup {<<MaxCount + 1, MaxSides + 1>>, <<0, 0>>}

SingleTexts ==
    {TermText(p[1], p[2], m) : p \in TermSamples, m \in Mods}
        \cup {PlainText(p[1], p[2]) : p \in TermSamples \cup BadSamples}
        \cup {TermText(p[1], p[2], m) : p \in BadSamples, m \in {-1, 1}}

\* second groups written with an explicit count, in and out of bounds
SecondSamples == {1, 2, 10, MaxCount + 1} \X {1, 2}

\* "{c1}d{s1}+{c2}d{s2}" and "{c1}d{s1}-{c2}d{s2}"
PairText(a, op, b) == PlainText(a[1], a[2]) \o <<op>> \o PlainText(b[1], b[2])

PairTexts ==
    {PairText(a, op, b) : a \in (1..MaxDice) \X (1..MaxFaces), op \in {"+", "-"},
                          b \in SecondSamples}

\* the expressions the documentation and the specification name
Examples ==
    {<<"2", "d", "6", "+", "3">>, <<"d", "2", "0", "-", "1">>,
     <<"1", "d", "8", "+", "2", "d", "4", "+", "5">>,
     <<"2", "d", "6", "+", "1", "d", "4">>, <<"1", "d", "4", "+", "1", "d", "6">>,
     <<"1", "d", "6", "+", "1", "0", "1", "d", "6">>,
     <<"1", "0", "1", "d", "6">>, <<"1", "d", "1", "0", "0", "1">>,
     <<"h", "e", "l", "l", "o">>, <<"2", "d", "6", "-", "3">>,
     <<"d", "4", "+", "d", "6">>, <<"d", "2", "+", "d", "2", "-", "d", "2">>,
     <<"2", "d", "2", "+", "1", "+", "d", "3", "-", "2">>,
     <<"3", "d", "1", "0", "+", "2">>, <<"2", "d", "8", "-", "1">>}

InsertAt(t, i, c) == SubSeq(t, 1, i) \o <<c>> \o SubSeq(t, i + 1, Len(t))

Upper(t) == [i \in 1..Len(t) |-> IF t[i] = "d" THEN "D" ELSE t[i]]

Whitespace == {" ", "\t", "\n"}

SpacedBases ==
    {<<"2", "d", "2", "+", "1">>, <<"d", "3", "-", "1">>,
     <<"1", "d", "2", "+", "1", "d", "2">>, <<"1", "0", "1", "d", "2">>}

\* the bases written with one whitespace character somewhere, or with 'D'
SpacedTexts ==
    LET one == UNION {{InsertAt(t, i, c) : i \in 0..Len(t), c \in Whitespace} : t \in SpacedBases}
    IN one \cup {Upper(t) : t \in one \cup SpacedBases}

Alphabet == {"0", "1", "d", "D", "+", "-", " ", "x"}

\* every text of at most MaxLen characters over Alphabet
ShortTexts == UNION {[1..n -> Alphabet] : n \in 0..MaxLen}

DiceInputs == SingleTexts \cup PairTexts \cup Examples \cup SpacedTexts \cup ShortTexts

\* the expressions of the roll requests
RequestInputs ==
    {<<"1", "D", "2", " ", "+", " ", "1">>, <<"2", "d", "1", "-", "3">>,
     <<"d", "1", "+", "d", "2">>, <<"\"", "d", "2", "\\", "\t", "-", "3">>,
     <<"h", "e", "l", "l", "o">>, <<"1", "0", "1", "d", "2">>, <<"d", "0">>}

-----------------------------------------------------------------------------
(* State machine *)

NotCalled == [called |-> FALSE]

NoBody == [expression |-> <<>>, result |-> 0, breakdown |-> <<>>]

\* an answer: the status, the detail of an HTTPException, the body of a roll
Response(status, detail, body) == [status |-> status, detail |-> detail, body |-> body]

NoResponse == Response(0, "", NoBody)

InitCalls ==
    /\ parsed = NotCalled
    /\ valid = NotCalled
    /\ rolled = NotCalled
    /\ rnd = <<>>

InitDb ==
    /\ tables = {}
    /\ chat = <<>>
    /\ response = NoResponse

Init == expression \in RequestInputs /\ InitCalls /\ InitDb

DiceInit == expression \in DiceInputs /\ InitCalls /\ InitDb

\* the caller's call of parse_dice_expression(expression); each function is called once
ParseCall ==
    /\ ~parsed.called
    /\ parsed' = [called |-> TRUE, result |-> parse_dice_expression(expression)]
    /\ UNCHANGED <<expression, valid, rolled, rnd, tables, chat, response>>

\* a call of validate_dice_expression(expression)
ValidateCall ==
    /\ ~valid.called
    /\ valid' = [called |-> TRUE, result |-> validate_dice_expression(expression)]
    /\ UNCHANGED <<expression, parsed, rolled, rnd, tables, chat, response>>

\* a call of roll_dice(expression), for every outcome of its random draws
RollCall ==
    /\ ~rolled.called
    /\ \E draws \in Draws(parse_dice_expression(expression).components) :
          /\ rolled' = [called |-> TRUE, result |-> roll_dice(expression, draws)]
          /\ rnd' = draws
    /\ UNCHANGED <<expression, parsed, valid, tables, chat, response>>

\* the id SQLite gives the next row of "tables": the largest id in use plus one
NewId == IF tables = {} THEN 1 ELSE (CHOOSE i \in tables : \A j \in tables : j <= i) + 1

\* POST /tables
create_table ==
    /\ NewId <= MaxTables
    /\ tables' = tables \cup {NewId}
    /\ response' = Response(200, "", NoBody)
    /\ UNCHANGED <<expression, parsed, valid, rolled, rnd, chat>>

\* DELETE /tables/{table_id}; the table's chat messages are deleted with it
delete_table(table_id) ==
    /\ IF table_id \notin tables
       THEN /\ response' = Response(404, "Table not found", NoBody)
            /\ UNCHANGED <<tables, chat>>
       ELSE /\ tables' = tables \ {table_id}
            /\ chat' = SelectSeq(chat, LAMBDA m : m.table_id # table_id)
            /\ response' = Response(200, "Table deleted successfully", NoBody)
    /\ UNCHANGED <<expression, parsed, valid, rolled, rnd>>

\* the roll endpoint without the look-up of the table: it rolls and stores the
\* message whether or not the table exists
roll_dice_endpoint_NoTableCheck(table_id) ==
    /\ Len(chat) < MaxMessages
    /\ LET v == validate_dice_expression(expression)
       IN IF ~v.value
          THEN /\ response' = Response(400, "Invalid dice expression", NoBody)
               /\ UNCHANGED chat
          ELSE \E draws \in Draws(parse_dice_expression(expression).components) :
                  LET r == roll_dice(expression, draws)
                      roll_payload == [expression |-> r.expression,
                                       result |-> r.total,
                                       breakdown |-> r.breakdown]
                  IN /\ chat' = Append(chat, [table_id |-> table_id,
                                              message_type |-> "roll",
                                              payload |-> json_dumps(roll_payload),
                                              user |-> "None"])
                     /\ response' = Response(200, "", roll_payload)
    /\ UNCHANGED <<expression, parsed, valid, rolled, rnd, tables>>

\* POST /tables/{table_id}/rolls with roll_request.expression = expression;
\* the uuid4 id and the timestamp of the stored message are left out of the row
roll_dice_endpoint(table_id) ==
    /\ Len(chat) < MaxMessages
    /\ IF table_id \notin tables
       THEN /\ response' = Response(404, "Table not found", NoBody)
            /\ UNCHANGED chat
       ELSE LET v == validate_dice_expression(expression)
            IN IF v.raised
               THEN /\ response' = Response(500, "Internal Server Error", NoBody)
                    /\ UNCHANGED chat
               ELSE IF ~v.value
               THEN /\ response' = Response(400, "Invalid dice expression", NoBody)
                    /\ UNCHANGED chat
               ELSE \E draws \in Draws(parse_dice_expression(expression).components) :
                       LET r == roll_dice(expression, draws)
                           roll_payload == [expression |-> r.expression,
                                            result |-> r.total,
                                            breakdown |-> r.breakdown]
                       IN IF ~r.ok
                          THEN /\ response' = Response(400, r.error.text, NoBody)
                               /\ UNCHANGED chat
                          ELSE /\ chat' = Append(chat, [table_id |-> table_id,
                                                        message_type |-> "roll",
                                                        payload |-> json_dumps(roll_payload),
                                                        user |-> "None"])
                               /\ response' = Response(200, "", roll_payload)
    /\ UNCHANGED <<expression, parsed, valid, rolled, rnd, tables>>

TableIds == 1..MaxTables

Next ==
    \/ RollCall
    \/ create_table
    \/ \E table_id \in TableIds : delete_table(table_id)
    \/ \E table_id \in TableIds : roll_dice_endpoint(table_id)

Spec == Init /\ [][Next]_vars

DiceNext == ParseCall \/ ValidateCall \/ RollCall

DiceSpec == DiceInit /\ [][DiceNext]_vars

-----------------------------------------------------------------------------
(* Properties of parse_dice_expression *)

Term(c, s, m) == [count |-> c, sides |-> s, modifier |-> m]

SmallTerms == (1..MaxDice) \X (1..MaxFaces)

\* what a caller sees of a parse: the term list, or the kind of the failure
Outcome(r) == [ok |-> r.ok, components |-> r.components, kind |-> r.error.text]

Failed(r, kind) == ~r.ok /\ r.error.text = kind

\* the texts "{c1}d{s1}+{c2}d{s2}", each with the two groups it was written from
PairCases ==
    {[text |-> PairText(a, "+", b), first |-> Term(a[1], a[2], 0),
      second |-> Term(b[1], b[2], 0)] : a \in SmallTerms, b \in SecondSamples}

\* C1: for in-bounds groups (c1, s1) and (c2, s2), the second with an explicit
\* count, parsing "{c1}d{s1}+{c2}d{s2}" returns exactly the two terms
\* (c1, s1, 0) and (c2, s2, 0): "+{c2}d{s2}" is never taken as a modifier of
\* the first term, as in "2d6+1d4" and "1d4+1d6".
C1_SecondGroupIsItsOwnTerm ==
    parsed.called =>
        /\ \A c \in PairCases :
              (c.second.count <= MaxCount /\ expression = c.text) =>
                  /\ parsed.result.ok
                  /\ parsed.result.components = <<c.first, c.second>>
        /\ expression = <<"2", "d", "6", "+", "1", "d", "4">> =>
              parsed.result.components = <<Term(2, 6, 0), Term(1, 4, 0)>>
        /\ expression = <<"1", "d", "4", "+", "1", "d", "6">> =>
              parsed.result.components = <<Term(1, 4, 0), Term(1, 6, 0)>>

\* the single-term texts, each with the (count, sides, modifier) it was written from
RoundTripCases ==
    {[text |-> TermText(p[1], p[2], m), term |-> Term(p[1], p[2], m)] :
        p \in TermSamples, m \in Mods}
        \cup {[text |-> PlainText(p[1], p[2]), term |-> Term(p[1], p[2], 0)] :
                p \in TermSamples}

\* C2: parsing "{count}d{sides}{modifier:+d}", and for modifier 0 also
\* "{count}d{sides}", returns exactly one term, (count, sides, modifier),
\* for every count in 1..100 and sides in 1..1000.
C2_SingleTermRoundTrip ==
    parsed.called =>
        \A c \in RoundTripCases :
            expression = c.text =>
                /\ parsed.result.ok
                /\ parsed.result.components = <<c.term>>

\* C2's case: a term with the largest count and a negative modifier has been parsed
C2_Witness ==
    /\ parsed.called
    /\ expression = TermText(MaxCount, 1, 0 - MaxMod)
    /\ parsed.result.components = <<Term(MaxCount, 1, 0 - MaxMod)>>

\* C3: parsing fails for every expression one of whose terms is out of bounds,
\* with 'Invalid dice count' for a count outside 1..100 and 'Invalid dice sides'
\* for sides outside 1..1000, also when the violating term follows a valid one
\* (as in "1d6+101d6"); every term of a returned list is within the bounds.
C3_OutOfBoundsTermRejected ==
    parsed.called =>
        /\ \A p \in BadSamples :
              expression = PlainText(p[1], p[2]) =>
                  IF p[1] < 1 \/ p[1] > MaxCount
                  THEN Failed(parsed.result, "Invalid dice count: ")
                  ELSE Failed(parsed.result, "Invalid dice sides: ")
        /\ \A c \in PairCases :
              (c.second.count > MaxCount /\ expression = c.text) =>
                  Failed(parsed.result, "Invalid dice count: ")
        /\ expression = <<"1", "d", "6", "+", "1", "0", "1", "d", "6">> =>
              Failed(parsed.result, "Invalid dice count: ")
        /\ parsed.result.ok =>
              \A i \in 1..Len(parsed.result.components) :
                  /\ parsed.result.components[i].count \in 1..MaxCount
                  /\ parsed.result.components[i].sides \in 1..MaxSides

\* the expression with every whitespace character removed and 'D' written 'd'
Normalized(e) ==
    LET kept == SelectSeq(e, LAMBDA c : c \notin Whitespace)
    IN [i \in 1..Len(kept) |-> IF kept[i] = "D" THEN "d" ELSE kept[i]]

\* C4: parsing an expression gives the same outcome (term list or failure kind)
\* as parsing it with all whitespace (spaces, tabs, newlines) removed and 'D'
\* replaced by 'd'.
C4_WhitespaceAndCaseIgnored ==
    parsed.called =>
        Outcome(parsed.result) = Outcome(parse_dice_expression(Normalized(expression)))

\* the positions of the text where a term occurs: a 'd' with a digit after it
TermStarts(t) == {i \in 1..Len(t) - 1 : t[i] = "d" /\ t[i + 1] \in Digits}

\* the k-th smallest element of a set of positions
Kth(S, k) == CHOOSE p \in S : Cardinality({q \in S : q < p}) = k - 1

\* the number written right after position i
NumberAfter(t, i) ==
    LET last == CHOOSE j \in i..Len(t) :
                    /\ \A q \in (i + 1)..j : t[q] \in Digits
                    /\ (j = Len(t) \/ t[j + 1] \notin Digits)
    IN NatOfDigits(SubSeq(t, i + 1, last))

-----------------------------------------------------------------------------
(* Properties of roll_dice and validate_dice_expression *)

\* the position of the first occurrence of character c in t
IndexOf(t, c) == CHOOSE i \in 1..Len(t) : t[i] = c /\ \A q \in 1..(i - 1) : t[q] # c

\* the positions of a bracketed draw list where an entry starts
EntryStarts(t, open, close) ==
    {i \in (open + 1)..(close - 1) : i = open + 1 \/ t[i - 1] = "+"}

\* C6: for a single valid term (n, s, m), every outcome of roll_dice has its
\* total in [n + m, n*s + m], and the bracketed draw list of the breakdown has
\* exactly n entries, each an integer in [1, s].
C6_RollWithinBounds ==
    (/\ parsed.called /\ rolled.called
     /\ parsed.result.ok /\ Len(parsed.result.components) = 1) =>
        LET term == parsed.result.components[1]
            b == rolled.result.breakdown
            open == IndexOf(b, "[")
            close == IndexOf(b, "]")
            starts == EntryStarts(b, open, close)
        IN /\ rolled.result.ok
           /\ rolled.result.total >= term.count + term.modifier
           /\ rolled.result.total <= term.count * term.sides + term.modifier
           /\ \A i \in (open + 1)..(close - 1) : b[i] \in Digits \cup {"+"}
           /\ Cardinality(starts) = term.count
           /\ \A i \in starts :
                 /\ b[i] \in Digits
                 /\ NumberAfter(b, i - 1) \in 1..term.sides

\* C6's case: two dice with a negative modifier have been rolled and both show
\* the highest face
C6_Witness ==
    /\ parsed.called /\ rolled.called
    /\ parsed.result.ok
    /\ parsed.result.components = <<Term(2, MaxFaces, 0 - MaxMod)>>
    /\ rolled.result.ok
    /\ rolled.result.total = 2 * MaxFaces - MaxMod

\* C7: validate_dice_expression returns a boolean without raising, true exactly
\* when parse_dice_expression succeeds, and roll_dice returns a result exactly
\* when validate_dice_expression is true.
C7_ValidateAgreesWithParseAndRoll ==
    /\ valid.called => (~valid.result.raised /\ valid.result.value \in BOOLEAN)
    /\ (valid.called /\ parsed.called) => (valid.result.value <=> parsed.result.ok)
    /\ (valid.called /\ rolled.called) => (valid.result.value <=> rolled.result.ok)

\* C7's case: an expression with an out-of-bounds count has been validated,
\* parsed and rolled, and all three refuse it
C7_Witness ==
    /\ valid.called /\ parsed.called /\ rolled.called
    /\ expression = <<"1", "0", "1", "d", "6">>
    /\ ~valid.result.value /\ ~parsed.result.ok /\ ~rolled.result.ok

RECURSIVE Flatten(_)
\* the concatenation of a sequence of texts
Flatten(parts) ==
    IF Len(parts) = 0 THEN <<>>
    ELSE IF Len(parts) = 1 THEN parts[1]
    ELSE LET h == Len(parts) \div 2
         IN Flatten(SubSeq(parts, 1, h)) \o Flatten(SubSeq(parts, h + 1, Len(parts)))

\* r1+...+rn
PlusList(r) ==
    Flatten([i \in 1..(2 * Len(r) - 1) |->
                IF i % 2 = 1 THEN Decimal(r[(i + 1) \div 2]) ELSE <<"+">>])

\* an integer in decimal, with '-' when negative
Number(n) == IF n < 0 THEN <<"-">> \o Decimal(0 - n) ELSE Decimal(n)

\* "{count}d{sides}: [r1+...+rn]{signed modifier} = {subtotal}", the signed
\* modifier being left out for modifier 0
Fragment(term, r) ==
    Decimal(term.count) \o <<"d">> \o Decimal(term.sides) \o <<":", " ", "[">>
        \o PlusList(r) \o <<"]">>
        \o (IF term.modifier = 0 THEN <<>>
            ELSE IF term.modifier > 0 THEN <<"+">> \o Decimal(term.modifier)
            ELSE <<"-">> \o Decimal(0 - term.modifier))
        \o <<" ", "=", " ">> \o Number(Sum(r) + term.modifier)

\* C9: the breakdown fragment of a term (count, sides, modifier) with draws
\* r1..rn is exactly "{count}d{sides}: [r1+...+rn]{signed modifier} = {subtotal}"
\* with subtotal = r1+...+rn+modifier; the signed modifier is there if and only
\* if modifier # 0 and has exactly one sign character; a single draw is still
\* shown inside brackets.
C9_FragmentFormat ==
    (/\ parsed.called /\ rolled.called
     /\ parsed.result.ok /\ Len(parsed.result.components) = 1) =>
        LET term == parsed.result.components[1]
            b == rolled.result.breakdown
            close == IndexOf(b, "]")
            equals == IndexOf(b, "=")
            shown == SubSeq(b, close + 1, equals - 2)
        IN /\ rolled.result.ok
           /\ Len(rnd) = 1 /\ Len(rnd[1]) = term.count
           /\ b = Fragment(term, rnd[1])
           /\ shown = <<>> <=> term.modifier = 0
           /\ shown # <<>> =>
                 /\ shown[1] = (IF term.modifier > 0 THEN "+" ELSE "-")
                 /\ \A i \in 2..Len(shown) : shown[i] \in Digits

\* C9's case: a single die with a negative modifier has been rolled
C9_Witness ==
    /\ parsed.called /\ rolled.called
    /\ parsed.result.ok
    /\ parsed.result.components = <<Term(1, MaxFaces, 0 - MaxMod)>>
    /\ rolled.result.ok
    /\ rnd = <<<<1>>>>
    /\ rolled.result.total = 1 - MaxMod

\* the positions of the '|' of the " | " that join the fragments
Bars(b) == {i \in 1..Len(b) : b[i] = "|"}

\* the k-th fragment of a breakdown
Piece(b, k) ==
    LET bars == Bars(b)
        from == IF k = 1 THEN 1 ELSE Kth(bars, k - 1) + 2
        to == IF k = Cardinality(bars) + 1 THEN Len(b) ELSE Kth(bars, k) - 2
    IN SubSeq(b, from, to)

\* the subtotal a fragment prints after '='
PrintedSubtotal(f) == int(SubSeq(f, IndexOf(f, "=") + 2, Len(f)))

RECURSIVE SumTo(_, _)
\* f[1] + ... + f[n]
SumTo(f, n) == IF n = 0 THEN 0 ELSE SumTo(f, n - 1) + f[n]

\* C10: roll_dice produces a breakdown of exactly k fragments joined by " | "
\* for the k parsed terms, the i-th fragment describing the i-th term (same
\* count and sides, in parse order), and the total equals the sum of the k
\* subtotals printed after '='.
C10_BreakdownMatchesTermsAndTotal ==
    (parsed.called /\ rolled.called /\ parsed.result.ok) =>
        LET terms == parsed.result.components
            b == rolled.result.breakdown
            k == Len(terms)
            pieces == [i \in 1..k |-> Piece(b, i)]
        IN /\ rolled.result.ok
           /\ Cardinality(Bars(b)) = k - 1
           /\ \A i \in Bars(b) : b[i - 1] = " " /\ b[i + 1] = " "
           /\ \A i \in 1..k :
                 SubSeq(pieces[i], 1, IndexOf(pieces[i], ":") - 1)
                     = Decimal(terms[i].count) \o <<"d">> \o Decimal(terms[i].sides)
           /\ rolled.result.total
                 = SumTo([i \in 1..k |-> PrintedSubtotal(pieces[i])], k)

\* C10's case: an expression of three terms has been rolled
C10_Witness ==
    /\ parsed.called /\ rolled.called
    /\ Len(parsed.result.components) = 3
    /\ rolled.result.ok
    /\ Cardinality(Bars(rolled.result.breakdown)) = 2
    /\ rolled.result.total = 4

-----------------------------------------------------------------------------
(* Properties of the roll endpoint *)

RollRequestEffect(t) ==
    /\ t \notin tables =>
          /\ response'.status = 404
          /\ chat' = chat
    /\ (t \in tables /\ ~parse_dice_expression(expression).ok) =>
          /\ response'.status = 400
          /\ response'.detail # ""
          /\ chat' = chat
    /\ (t \in tables /\ parse_dice_expression(expression).ok) =>
          /\ response'.status = 200
          /\ Len(chat') = Len(chat) + 1
          /\ SubSeq(chat', 1, Len(chat)) = chat
          /\ LET m == chat'[Len(chat')]
                 stored == json_loads(m.payload)
             IN /\ m.table_id = t
                /\ m.message_type = "roll"
                /\ stored.expression = response'.body.expression
                /\ stored.result = response'.body.result
                /\ stored.breakdown = response'.body.breakdown

====
